---- MODULE Spec2Model ----
(***************************************************************************)
(* Model of src/main.py: the POST /transcribe handler of the piano         *)
(* transcription service.                                                  *)
(*                                                                         *)
(* The handler is an "async def" coroutine.  It runs on the server's       *)
(* event loop and gives the loop up at exactly one place, the              *)
(* "await audio.read()" of line 39; every other statement (load_audio,     *)
(* transcriptor.transcribe, the post-processing, the MIDI write, the       *)
(* finally block) is an ordinary synchronous call made while the coroutine *)
(* holds the loop.  The variable "loop" names the request whose coroutine  *)
(* is running (0 when the loop is free).  The framework sends the response *)
(* the handler returned after the handler has finished.                    *)
(*                                                                         *)
(* Paths are sequences of tokens; "/" is the separator token and "." the   *)
(* extension-separator token, every other token stands for a run of        *)
(* characters holding neither.                                             *)
(***************************************************************************)
EXTENDS Integers, Sequences, FiniteSets, TLC

\* number of /transcribe requests the server receives
NumReq == 2

Requests == 1 .. NumReq

\* the values uuid.uuid4() returns, in the order it returns them: version-4
\* UUIDs do not repeat, and str(uuid) holds neither "/" nor "."
UUIDs == <<"u1", "u2", "u3", "u4">>

\* values of audio.filename the clients send
FileNames ==
  { <<"a", ".", "wav">>,
    <<"a", ".", "mid">>,
    <<"a">>,
    <<"d", "/", "a", ".", "wav">> }

UPLOAD_DIR == <<"uploads">>

VARIABLES
  pc,               \* pc[r]: the statement request r's handler executes next
  loop,             \* the request whose coroutine holds the event loop, 0 if none
  issued,           \* the number of values uuid4() has returned so far
  audio_filename,   \* audio.filename of the request's upload
  input_path,       \* the handler's local input_path
  output_midi_path, \* the handler's local output_midi_path
  disk,             \* the file system: path |-> content, for the files that exist
  isOpen,           \* isOpen[r]: the handle f of line 38 is open
  retval,           \* the value the try or except clause decided to return
  result,           \* what left the handler: the returned value, or an exception
  sent,             \* the HTTP response the framework sent
  raised,           \* the pipeline step that raised in request r, "none" if none
  cleanupRan,       \* the finally block of request r has run
  removeFailed,     \* os.remove raised in the finally block of request r
  midiWrites        \* the MIDI contents written to output_midi_path, in order

vars == <<pc, loop, issued, audio_filename, input_path, output_midi_path, disk, isOpen, retval,
          result, sent, raised, cleanupRan, removeFailed, midiWrites>>

----------------------------------------------------------------------------
\* Path arithmetic of lines 32-34

\* str.rfind: the last index holding c, 0 when there is none
RFind(p, c) ==
  LET hits == {i \in 1 .. Len(p) : p[i] = c}
  IN  IF hits = {} THEN 0 ELSE CHOOSE i \in hits : \A j \in hits : j <= i

\* variant of InputFilename: the upload is stored under its own name alone
InputFilenameNoUuid(u, f) == f

\* f"{uuid.uuid4()}_{audio.filename}"
InputFilename(u, f) == <<u, "_">> \o f

\* os.path.join(a, b)
Join(a, b) ==
  IF b # <<>> /\ Head(b) = "/" THEN b ELSE a \o <<"/">> \o b

\* os.path.splitext(p)[0]: the extension starts at the last dot of the last
\* component, unless that component holds only leading dots before it
SplitextRoot(p) ==
  LET sepIndex == RFind(p, "/")
      dotIndex == RFind(p, ".")
  IN  IF /\ dotIndex > sepIndex
         /\ \E i \in (sepIndex + 1) .. (dotIndex - 1) : p[i] # "."
      THEN SubSeq(p, 1, dotIndex - 1)
      ELSE p

InputPath(u, f) == Join(UPLOAD_DIR, InputFilename(u, f))

OutputMidiPath(ip) == SplitextRoot(ip) \o <<".", "mid">>

\* the directory a path lies in; only UPLOAD_DIR is ever created (line 27)
Dirname(p) == SubSeq(p, 1, RFind(p, "/") - 1)

DirExists(p) == Dirname(p) = UPLOAD_DIR

----------------------------------------------------------------------------
\* The file system

Exists(p) == p \in DOMAIN disk

Put(d, p, c) == [q \in (DOMAIN d) \cup {p} |-> IF q = p THEN c ELSE d[q]]

Remove(d, p) == [q \in (DOMAIN d) \ {p} |-> d[q]]

EmptyDisk == [q \in {} |-> "none"]

----------------------------------------------------------------------------
\* Responses

NoValue == [kind |-> "none", path |-> <<>>, media_type |-> "none", filename |-> "none"]

\* FileResponse(output_midi_path, media_type=..., filename=...)
FileResponse(p) ==
  [kind |-> "file", path |-> p, media_type |-> "audio/midi",
   filename |-> "transcribed_sensitive.mid"]

\* {"error": str(e)}
ErrorJson == [kind |-> "json_error", path |-> <<>>, media_type |-> "application/json",
              filename |-> "none"]

\* an exception leaving the handler
Propagated == [kind |-> "exception", path |-> <<>>, media_type |-> "none",
               filename |-> "none"]

NotSent == [status |-> 0, kind |-> "none", body |-> "none", media_type |-> "none",
            filename |-> "none"]

\* what the framework puts on the wire for the value v that left the handler
Wire(v) ==
  CASE v.kind = "json_error" ->
         [status |-> 200, kind |-> "json_error", body |-> "error",
          media_type |-> v.media_type, filename |-> "none"]
    [] v.kind = "file" /\ Exists(v.path) ->
         [status |-> 200, kind |-> "file", body |-> disk[v.path],
          media_type |-> v.media_type, filename |-> v.filename]
    [] OTHER ->
         [status |-> 500, kind |-> "server_error", body |-> "none",
          media_type |-> "none", filename |-> "none"]

----------------------------------------------------------------------------
Init ==
  /\ pc = [r \in Requests |-> "idle"]
  /\ loop = 0
  /\ issued = 0
  /\ audio_filename = [r \in Requests |-> <<>>]
  /\ input_path = [r \in Requests |-> <<>>]
  /\ output_midi_path = [r \in Requests |-> <<>>]
  /\ disk = EmptyDisk
  /\ isOpen = [r \in Requests |-> FALSE]
  /\ retval = [r \in Requests |-> NoValue]
  /\ result = [r \in Requests |-> NoValue]
  /\ sent = [r \in Requests |-> NotSent]
  /\ raised = [r \in Requests |-> "none"]
  /\ cleanupRan = [r \in Requests |-> FALSE]
  /\ removeFailed = [r \in Requests |-> FALSE]
  /\ midiWrites = [r \in Requests |-> <<>>]

\* request r's coroutine is the one running
Running(r) == loop = r

\* a statement of the try body raises: control passes to the except clause
Raise(r, step) ==
  /\ pc' = [pc EXCEPT ![r] = "except"]
  /\ raised' = [raised EXCEPT ![r] = step]

\* a statement of the try body completes: control passes to the next one
Goto(r, next) ==
  /\ pc' = [pc EXCEPT ![r] = next]
  /\ UNCHANGED raised

\* uuid.uuid4(): the next value not returned before
Uuid4 == UUIDs[issued + 1]

\* lines 31-34: the request arrives, its coroutine starts and names its files
\* (requests are numbered in the order their handlers start)
Start(r) ==
  /\ pc[r] = "idle"
  /\ \A q \in Requests : q < r => pc[q] # "idle"
  /\ loop = 0
  /\ issued' = issued + 1
  /\ \E f \in FileNames :
       /\ audio_filename' = [audio_filename EXCEPT ![r] = f]
       /\ input_path' = [input_path EXCEPT ![r] = InputPath(Uuid4, f)]
       /\ output_midi_path' =
            [output_midi_path EXCEPT ![r] = OutputMidiPath(InputPath(Uuid4, f))]
  /\ loop' = r
  /\ pc' = [pc EXCEPT ![r] = "open"]
  /\ UNCHANGED <<disk, isOpen, retval, result, sent, raised, cleanupRan,
                 removeFailed, midiWrites>>

\* line 38: open(input_path, "wb") creates or truncates the file
Open(r) ==
  /\ pc[r] = "open"
  /\ Running(r)
  /\ \E ok \in (IF DirExists(input_path[r]) THEN BOOLEAN ELSE {FALSE}) :
       IF ok
       THEN /\ disk' = Put(disk, input_path[r], "empty")
            /\ isOpen' = [isOpen EXCEPT ![r] = TRUE]
            /\ Goto(r, "await")
       ELSE /\ Raise(r, "open")
            /\ UNCHANGED <<disk, isOpen>>
  /\ UNCHANGED <<loop, issued, audio_filename, input_path, output_midi_path, retval, result,
                 sent, cleanupRan, removeFailed, midiWrites>>

\* line 39: await audio.read() suspends the coroutine and frees the loop
AwaitRead(r) ==
  /\ pc[r] = "await"
  /\ Running(r)
  /\ loop' = 0
  /\ pc' = [pc EXCEPT ![r] = "reading"]
  /\ UNCHANGED <<issued, audio_filename, input_path, output_midi_path, disk, isOpen, retval,
                 result, sent, raised, cleanupRan, removeFailed, midiWrites>>

\* line 39: the read completes and the loop resumes the coroutine
ReadDone(r) ==
  /\ pc[r] = "reading"
  /\ loop = 0
  /\ loop' = r
  /\ \E ok \in BOOLEAN :
       IF ok
       THEN /\ Goto(r, "write")
            /\ UNCHANGED isOpen
       ELSE /\ Raise(r, "read")
            /\ isOpen' = [isOpen EXCEPT ![r] = FALSE]
  /\ UNCHANGED <<issued, audio_filename, input_path, output_midi_path, disk, retval, result,
                 sent, cleanupRan, removeFailed, midiWrites>>

\* variant of Write: a failed write is swallowed and the pipeline goes on
WriteSwallowsFailure(r) ==
  /\ pc[r] = "write"
  /\ Running(r)
  /\ \E ok \in BOOLEAN :
       disk' = Put(disk, input_path[r], IF ok THEN "full" ELSE "partial")
  /\ Goto(r, "load")
  /\ isOpen' = [isOpen EXCEPT ![r] = FALSE]
  /\ UNCHANGED <<loop, issued, audio_filename, input_path, output_midi_path,
                 retval, result, sent, cleanupRan, removeFailed, midiWrites>>

\* lines 38-39: f.write(...) and the end of the with block, which closes f
Write(r) ==
  /\ pc[r] = "write"
  /\ Running(r)
  /\ \E ok \in BOOLEAN :
       IF ok
       THEN /\ disk' = Put(disk, input_path[r], "full")
            /\ Goto(r, "load")
       ELSE /\ disk' = Put(disk, input_path[r], "partial")
            /\ Raise(r, "write")
  /\ isOpen' = [isOpen EXCEPT ![r] = FALSE]
  /\ UNCHANGED <<loop, issued, audio_filename, input_path, output_midi_path, retval, result,
                 sent, cleanupRan, removeFailed, midiWrites>>

\* line 44: load_audio(input_path, ...) decodes the whole file
Load(r) ==
  /\ pc[r] = "load"
  /\ Running(r)
  /\ \E ok \in (IF Exists(input_path[r]) /\ disk[input_path[r]] = "full"
                THEN BOOLEAN ELSE {FALSE}) :
       IF ok THEN Goto(r, "infer") ELSE Raise(r, "load")
  /\ UNCHANGED <<loop, issued, audio_filename, input_path, output_midi_path, disk, isOpen,
                 retval, result, sent, cleanupRan, removeFailed, midiWrites>>

\* variant of InferBegin: the model call is awaited in a worker thread, which
\* frees the event loop for the other coroutines
InferBeginOffLoop(r) ==
  /\ pc[r] = "infer"
  /\ Running(r)
  /\ pc' = [pc EXCEPT ![r] = "in_model"]
  /\ loop' = 0
  /\ UNCHANGED <<issued, audio_filename, input_path, output_midi_path, disk,
                 isOpen, retval, result, sent, raised, cleanupRan, removeFailed,
                 midiWrites>>

\* line 47: the call of transcriptor.transcribe begins; it is a plain call
InferBegin(r) ==
  /\ pc[r] = "infer"
  /\ Running(r)
  /\ pc' = [pc EXCEPT ![r] = "in_model"]
  /\ UNCHANGED <<loop, issued, audio_filename, input_path, output_midi_path, disk, isOpen,
                 retval, result, sent, raised, cleanupRan, removeFailed,
                 midiWrites>>

\* line 47: the model call ends; on success it has written its default MIDI
InferEnd(r) ==
  /\ pc[r] = "in_model"
  /\ Running(r)
  /\ \E ok \in BOOLEAN :
       IF ok
       THEN /\ disk' = Put(disk, output_midi_path[r], "default")
            /\ midiWrites' = [midiWrites EXCEPT ![r] = Append(@, "default")]
            /\ Goto(r, "post")
       ELSE /\ Raise(r, "infer")
            /\ UNCHANGED <<disk, midiWrites>>
  /\ UNCHANGED <<loop, issued, audio_filename, input_path, output_midi_path, isOpen, retval,
                 result, sent, cleanupRan, removeFailed>>

\* lines 48-63: RegressionPostProcessor and output_dict_to_midi_events
Post(r) ==
  /\ pc[r] = "post"
  /\ Running(r)
  /\ \E ok \in BOOLEAN :
       IF ok THEN Goto(r, "midi") ELSE Raise(r, "post")
  /\ UNCHANGED <<loop, issued, audio_filename, input_path, output_midi_path, disk, isOpen,
                 retval, result, sent, cleanupRan, removeFailed, midiWrites>>

\* variant of WriteMidi: the custom events are never written to the file
WriteMidiSkipped(r) ==
  /\ pc[r] = "midi"
  /\ Running(r)
  /\ \E ok \in BOOLEAN :
       IF ok THEN Goto(r, "return") ELSE Raise(r, "midi")
  /\ UNCHANGED <<loop, issued, audio_filename, input_path, output_midi_path,
                 disk, isOpen, retval, result, sent, cleanupRan, removeFailed,
                 midiWrites>>

\* lines 66-71: write_events_to_midi(0, notes, pedals, output_midi_path)
WriteMidi(r) ==
  /\ pc[r] = "midi"
  /\ Running(r)
  /\ \E ok \in BOOLEAN :
       IF ok
       THEN /\ disk' = Put(disk, output_midi_path[r], "custom")
            /\ midiWrites' = [midiWrites EXCEPT ![r] = Append(@, "custom")]
            /\ Goto(r, "return")
       ELSE /\ Raise(r, "midi")
            /\ UNCHANGED <<disk, midiWrites>>
  /\ UNCHANGED <<loop, issued, audio_filename, input_path, output_midi_path, isOpen, retval,
                 result, sent, cleanupRan, removeFailed>>

\* lines 73-77: return FileResponse(...); the finally block runs first
Return(r) ==
  /\ pc[r] = "return"
  /\ Running(r)
  /\ retval' = [retval EXCEPT ![r] = FileResponse(output_midi_path[r])]
  /\ pc' = [pc EXCEPT ![r] = "finally"]
  /\ UNCHANGED <<loop, issued, audio_filename, input_path, output_midi_path, disk, isOpen,
                 result, sent, raised, cleanupRan, removeFailed, midiWrites>>

\* variant of Except: the error is returned at once, past the cleanup
ExceptSkipsCleanup(r) ==
  /\ pc[r] = "except"
  /\ Running(r)
  /\ retval' = [retval EXCEPT ![r] = ErrorJson]
  /\ result' = [result EXCEPT ![r] = ErrorJson]
  /\ pc' = [pc EXCEPT ![r] = "returned"]
  /\ loop' = 0
  /\ UNCHANGED <<issued, audio_filename, input_path, output_midi_path, disk,
                 isOpen, sent, raised, cleanupRan, removeFailed, midiWrites>>

\* variant of Except: the exception is logged and raised again
ExceptReraises(r) ==
  /\ pc[r] = "except"
  /\ Running(r)
  /\ retval' = [retval EXCEPT ![r] = Propagated]
  /\ pc' = [pc EXCEPT ![r] = "finally"]
  /\ UNCHANGED <<loop, issued, audio_filename, input_path, output_midi_path,
                 disk, isOpen, result, sent, raised, cleanupRan, removeFailed,
                 midiWrites>>

\* lines 79-83: except Exception: return {"error": str(e)}
Except(r) ==
  /\ pc[r] = "except"
  /\ Running(r)
  /\ retval' = [retval EXCEPT ![r] = ErrorJson]
  /\ pc' = [pc EXCEPT ![r] = "finally"]
  /\ UNCHANGED <<loop, issued, audio_filename, input_path, output_midi_path, disk, isOpen,
                 result, sent, raised, cleanupRan, removeFailed, midiWrites>>

\* variant of Finally: a failure of os.remove leaves the handler
FinallyPropagates(r) ==
  /\ pc[r] = "finally"
  /\ Running(r)
  /\ IF Exists(input_path[r])
     THEN \E ok \in BOOLEAN :
            /\ disk' = IF ok THEN Remove(disk, input_path[r]) ELSE disk
            /\ removeFailed' = [removeFailed EXCEPT ![r] = ~ok]
            /\ result' = [result EXCEPT ![r] = IF ok THEN retval[r] ELSE Propagated]
     ELSE /\ result' = [result EXCEPT ![r] = retval[r]]
          /\ UNCHANGED <<disk, removeFailed>>
  /\ cleanupRan' = [cleanupRan EXCEPT ![r] = TRUE]
  /\ pc' = [pc EXCEPT ![r] = "returned"]
  /\ loop' = 0
  /\ UNCHANGED <<issued, audio_filename, input_path, output_midi_path, isOpen,
                 retval, sent, raised, midiWrites>>

\* variant of Finally: the cleanup empties the upload directory
FinallyRemovesAll(r) ==
  /\ pc[r] = "finally"
  /\ Running(r)
  /\ IF Exists(input_path[r])
     THEN \E ok \in BOOLEAN :
            /\ disk' = IF ok THEN EmptyDisk ELSE disk
            /\ removeFailed' = [removeFailed EXCEPT ![r] = ~ok]
     ELSE UNCHANGED <<disk, removeFailed>>
  /\ cleanupRan' = [cleanupRan EXCEPT ![r] = TRUE]
  /\ result' = [result EXCEPT ![r] = retval[r]]
  /\ pc' = [pc EXCEPT ![r] = "returned"]
  /\ loop' = 0
  /\ UNCHANGED <<issued, audio_filename, input_path, output_midi_path, isOpen,
                 retval, sent, raised, midiWrites>>

\* lines 85-91: the finally block, then the handler ends and frees the loop
Finally(r) ==
  /\ pc[r] = "finally"
  /\ Running(r)
  /\ IF Exists(input_path[r])
     THEN \E ok \in BOOLEAN :
            /\ disk' = IF ok THEN Remove(disk, input_path[r]) ELSE disk
            /\ removeFailed' = [removeFailed EXCEPT ![r] = ~ok]
     ELSE UNCHANGED <<disk, removeFailed>>
  /\ cleanupRan' = [cleanupRan EXCEPT ![r] = TRUE]
  /\ result' = [result EXCEPT ![r] = retval[r]]
  /\ pc' = [pc EXCEPT ![r] = "returned"]
  /\ loop' = 0
  /\ UNCHANGED <<issued, audio_filename, input_path, output_midi_path, isOpen, retval, sent,
                 raised, midiWrites>>

\* the framework sends what the handler returned; a FileResponse reads its
\* file only now
Send(r) ==
  /\ pc[r] = "returned"
  /\ loop = 0
  /\ sent' = [sent EXCEPT ![r] = Wire(result[r])]
  /\ pc' = [pc EXCEPT ![r] = "done"]
  /\ UNCHANGED <<loop, issued, audio_filename, input_path, output_midi_path, disk, isOpen,
                 retval, result, raised, cleanupRan, removeFailed, midiWrites>>

Next ==
  \E r \in Requests :
    \/ Start(r)
    \/ Open(r)
    \/ AwaitRead(r)
    \/ ReadDone(r)
    \/ Write(r)
    \/ Load(r)
    \/ InferBegin(r)
    \/ InferEnd(r)
    \/ Post(r)
    \/ WriteMidi(r)
    \/ Return(r)
    \/ Except(r)
    \/ Finally(r)
    \/ Send(r)

Spec == Init /\ [][Next]_vars

----------------------------------------------------------------------------
\* Vocabulary of the properties

Started(r) == pc[r] # "idle"

\* the handler of request r has finished (its response may not be sent yet)
Finished(r) == pc[r] \in {"returned", "done"}

\* every pipeline step of request r succeeded
Succeeded(r) == Finished(r) /\ raised[r] = "none"

Paths(r) == {input_path[r], output_midi_path[r]}

\* the files the step removes from the disk
Deleted == (DOMAIN disk) \ (DOMAIN disk')

----------------------------------------------------------------------------
\* C1: on every exit path of the pipeline the handler runs its cleanup of the
\* input file before it finishes, and unless os.remove itself failed the
\* input file is not on disk once the handler has finished.
C1_CleanupOnEveryExit ==
  \A r \in Requests :
    Finished(r) =>
      /\ cleanupRan[r]
      /\ ~removeFailed[r] => ~Exists(input_path[r])

\* a request whose pipeline raised after the upload was stored has finished,
\* and another one has finished without an error
C1_Witness ==
  \E r1, r2 \in Requests :
    /\ Finished(r1) /\ raised[r1] \in {"load", "infer", "post", "midi"}
    /\ ~removeFailed[r1] /\ ~Exists(input_path[r1])
    /\ Succeeded(r2) /\ ~removeFailed[r2]

\* C2: after a successful request whose cleanup removed what it set out to
\* remove, whatever the upload's filename, the input file is gone from the
\* disk and the request's output MIDI file is still there.
C2_InputGoneOutputKept ==
  \A r \in Requests :
    Succeeded(r) /\ ~removeFailed[r] =>
      /\ ~Exists(input_path[r])
      /\ Exists(output_midi_path[r])

\* C3 as stated: when a pipeline step raised, the response is the error JSON
\* with status 200 and the input file is gone after the handler.
C3_ErrorJsonAndInputRemoved ==
  \A r \in Requests :
    raised[r] # "none" =>
      /\ pc[r] = "done" =>
           sent[r].status = 200 /\ sent[r].kind = "json_error"
      /\ Finished(r) => ~Exists(input_path[r])

\* C3 as amended: when a pipeline step raised, the response is the error JSON
\* with status 200, and the input file is gone after the handler unless
\* os.remove itself failed.
C3_ErrorJsonAndInputRemovedUnlessRemoveFails ==
  \A r \in Requests :
    raised[r] # "none" =>
      /\ Finished(r) => result[r] = ErrorJson
      /\ pc[r] = "done" =>
           sent[r].status = 200 /\ sent[r].kind = "json_error"
      /\ Finished(r) /\ ~removeFailed[r] => ~Exists(input_path[r])

\* the error response of a request whose inference raised has been sent, its
\* stored upload removed
C3_Witness ==
  \E r \in Requests :
    /\ pc[r] = "done" /\ raised[r] = "infer"
    /\ sent[r].kind = "json_error"
    /\ cleanupRan[r] /\ ~removeFailed[r] /\ ~Exists(input_path[r])

\* C4: when every pipeline step succeeded, whatever the upload's filename,
\* the response sent after the cleanup is the download of the output MIDI
\* file (audio/midi, transcribed_sensitive.mid), the file being on disk when
\* the body is sent.
C4_FileDownloadPresentAtSend ==
  \A r \in Requests :
    pc[r] = "done" /\ raised[r] = "none" =>
      /\ cleanupRan[r]
      /\ sent[r].status = 200
      /\ sent[r].kind = "file"
      /\ sent[r].media_type = "audio/midi"
      /\ sent[r].filename = "transcribed_sensitive.mid"

\* C5: the input path and the output path of one request never equal the
\* input path or the output path of another request, whatever the filenames
\* of the two uploads.
C5_PathsDisjoint ==
  \A r1, r2 \in Requests :
    r1 # r2 /\ Started(r1) /\ Started(r2) => Paths(r1) \cap Paths(r2) = {}

\* two requests that uploaded the same filename are in flight together
C5_Witness ==
  \E r1, r2 \in Requests :
    /\ r1 # r2
    /\ audio_filename[r1] = audio_filename[r2]
    /\ pc[r1] = "reading" /\ pc[r2] \in {"write", "load", "infer", "in_model"}

\* C6: from the moment audio loading begins until the model call is under
\* way, the request's input file is on disk, fully written and closed.
C6_InputCompleteBeforeInference ==
  \A r \in Requests :
    pc[r] \in {"load", "infer", "in_model"} =>
      /\ Exists(input_path[r])
      /\ disk[input_path[r]] = "full"
      /\ ~isOpen[r]

\* a request is inside the model call while another request's input file is
\* opened and still unwritten
C6_Witness ==
  \E r1, r2 \in Requests :
    /\ pc[r1] = "in_model"
    /\ isOpen[r2] /\ Exists(input_path[r2]) /\ disk[input_path[r2]] = "empty"

\* C7 as stated: nothing bounds the concurrent model calls; a request in
\* flight is never held back because another request is inside the model
\* call, so that the two can be inside it at the same time.
C7_NoBoundOnModelCalls ==
  \A r1, r2 \in Requests :
    r1 # r2 /\ pc[r1] = "in_model" /\ pc[r2] = "reading" => ENABLED ReadDone(r2)

\* C7 as amended: in one server process at most one request is inside the
\* model call at any time.
C7_OneModelCallAtATime ==
  \A r1, r2 \in Requests :
    pc[r1] = "in_model" /\ pc[r2] = "in_model" => r1 = r2

\* a request is inside the model call while another request is in flight
C7_Witness ==
  \E r1, r2 \in Requests :
    pc[r1] = "in_model" /\ loop = r1 /\ pc[r2] = "reading"

\* C8: when os.remove fails in the cleanup, no exception leaves the handler:
\* what it returns is what the pipeline produced, the file download on
\* success and the error JSON on failure.
C8_CleanupFailureNonFatal ==
  \A r \in Requests :
    Finished(r) /\ removeFailed[r] =>
      /\ result[r] = IF raised[r] = "none"
                     THEN FileResponse(output_midi_path[r])
                     ELSE ErrorJson
      /\ pc[r] = "done" => sent[r].status = 200

\* the removal failed in a successful request and in a failed one
C8_Witness ==
  \E r1, r2 \in Requests :
    /\ pc[r1] = "done" /\ removeFailed[r1] /\ raised[r1] = "none"
    /\ pc[r2] = "done" /\ removeFailed[r2] /\ raised[r2] # "none"

\* C9: in a successful request the output path is written twice, first the
\* default MIDI of the model call and then the custom events, and a MIDI file
\* sent to the client holds the custom events.
C9_CustomMidiReturned ==
  \A r \in Requests :
    /\ pc[r] \in {"return", "finally"} /\ raised[r] = "none" =>
         /\ midiWrites[r] = <<"default", "custom">>
         /\ disk[output_midi_path[r]] = "custom"
    /\ Succeeded(r) => midiWrites[r] = <<"default", "custom">>
    /\ sent[r].kind = "file" => sent[r].body = "custom"

\* a MIDI file has been sent
C9_Witness ==
  \E r \in Requests :
    pc[r] = "done" /\ sent[r].kind = "file" /\ sent[r].body = "custom"

\* C10: a step deletes a file only when it is the cleanup of a request and the
\* file is that request's input path, which is neither the input path nor the
\* output path of any other request.
C10_DeletesOnlyOwnInput ==
  [][\A p \in Deleted :
       \E r \in Requests :
         /\ pc[r] = "finally" /\ loop = r
         /\ p = input_path[r]
         /\ \A q \in Requests \ {r} : Started(q) => p \notin Paths(q)]_vars

\* the later request has removed its input file while the earlier request is
\* still in progress, suspended in its read with its input file on disk
C10_Witness ==
  \E r1, r2 \in Requests :
    /\ r1 < r2
    /\ cleanupRan[r2] /\ raised[r2] = "none" /\ ~Exists(input_path[r2])
    /\ pc[r1] = "reading" /\ Exists(input_path[r1])

====
